---- MODULE Spec2Model ----
(***************************************************************************)
(* Model of the asynchronous logger of pkg/logger/logrus.go.               *)
(*                                                                         *)
(* The engine owns two buffered Go channels (msgCh, errCh), one drain      *)
(* goroutine per channel (handleMessages, handleErrors), a WaitGroup and   *)
(* the cancel closure returned by NewLogrus.  Producers are goroutines     *)
(* calling the public operations (DebugMsg .. LogMsg, Debug .. Log).       *)
(*                                                                         *)
(* Go semantics the model relies on:                                       *)
(*  - a send on a closed channel panics; a sender parked on a full channel *)
(*    panics when the channel is closed; closing a closed channel panics;  *)
(*  - parked senders are served in FIFO order: a receive from a full       *)
(*    buffer takes the head and moves the first parked sender's element    *)
(*    to the tail in the same critical section (runtime/chan.go);          *)
(*  - a panicking goroutine runs its deferred calls (here wg.Done) and     *)
(*    then the runtime ends the process; the other goroutines keep running *)
(*    until that exit happens.  The exit stops every goroutine wherever it *)
(*    is: in this model it is the behaviour taking no further step, so it  *)
(*    needs no action of its own (Crashed tells a panic has happened);     *)
(*  - logrus Entry.Log writes the entry and then panics when the level is  *)
(*    PanicLevel; at FatalLevel it only writes (Exit is called by          *)
(*    Entry.Fatal, not by Entry.Log);                                      *)
(*  - calling a method on a nil interface value (ctx.Value, err.Error)     *)
(*    panics.                                                              *)
(***************************************************************************)
EXTENDS Naturals, Sequences, FiniteSets

(* ------------------------------ bounds --------------------------------- *)

\* Largest configured buffer capacity explored (capacities 0 .. MaxCap).
MaxCap == 2

\* Number of producer goroutines.
NumProducers == 2

\* Number of producer calls made in all, by all producer goroutines together.
MaxCalls == 3

Producers == 1 .. NumProducers

\* Callers of the cancel closure (the second one only under SpecTwice).
Shutters == {"s1", "s2"}

(* --------------------------- enum constants ---------------------------- *)

DebugLvl == "debug"

InfoLvl == "info"

WarningLvl == "warning"

ErrorLvl == "error"

FatalLvl == "fatal"

PanicLvl == "panic"

\* The two channels of the engine.
Queues == {"msgCh", "errCh"}

\* A nil error interface value.
NilErr == "<nil>"

\* A nil ctx.Value result.
NilValue == "<nil>"

\* context.Context values: isNil is a nil interface, vals the key/value scope.
NilCtx == [isNil |-> TRUE, vals |-> <<>>]

\* The empty field map.
NoFields == <<>>

(* ------------------------------- state --------------------------------- *)

VARIABLES
    capacity,            \* cfg.GetBufferCapacity()
    contextExtraFields,  \* l.contextExtraFields
    buf,                 \* buf[q]: the channel's buffered elements, head first
    sendq,               \* sendq[q]: senders parked on the full channel (their dto)
    closed,              \* closed[q]: the channel has been closed
    wpc,                 \* wpc[q]: position of the drain goroutine of q
    wcur,                \* wcur[q]: <<dto>> held by the drain goroutine, or <<>>
    wg,                  \* the WaitGroup counter
    ppc,                 \* ppc[p]: "ready" (not in a call; the last send did not
                         \* park), "parked" (in sendq), "resumed" (not in a call;
                         \* the last send parked and was completed by a receive),
                         \* "panicked"
    calls,               \* calls[p]: producer calls made by p so far
    quota,               \* producer calls the producers make in all
    req,                 \* req[p]: <<dto>> of p's latest call, or <<>>
    lastCall,            \* lastCall[p]: <<invocation>> of p's latest call, or <<>>
    shutPc,              \* shutPc[s]: position of a caller of the cancel closure
    written,             \* entries handed to logrus (Entry.Log), in order
    committed,           \* history: committed[q] = dtos in enqueue-completion order
    sigLen,              \* history: Len(committed[q]) when the cancel closure began
    resolver             \* the output resolver (NewOutput): its call and the
                         \* file system it works on

vars == <<capacity, contextExtraFields, buf, sendq, closed, wpc, wcur, wg,
          ppc, calls, quota, req, lastCall, shutPc, written, committed, sigLen,
          resolver>>

(* --------------------------- pure functions ---------------------------- *)

\* Mutant: a level name that is none of the six selects InfoLevel.
getLevelDefaultInfo(level) ==
    CASE level = DebugLvl   -> "DebugLevel"
      [] level = WarningLvl -> "WarnLevel"
      [] level = ErrorLvl   -> "ErrorLevel"
      [] level = FatalLvl   -> "FatalLevel"
      [] level = PanicLvl   -> "PanicLevel"
      [] OTHER              -> "InfoLevel"

\* logrus levels, as returned by getLevel.
getLevel(level) ==
    CASE level = InfoLvl    -> "InfoLevel"
      [] level = WarningLvl -> "WarnLevel"
      [] level = ErrorLvl   -> "ErrorLevel"
      [] level = FatalLvl   -> "FatalLevel"
      [] level = PanicLvl   -> "PanicLevel"
      [] OTHER              -> "DebugLevel"

\* ctx.Value(key) on a non-nil context.
CtxValue(ctx, key) ==
    IF key \in DOMAIN ctx.vals THEN ctx.vals[key] ELSE NilValue

\* The keys of a sequence of configured context keys.
KeysOf(keys) == {keys[i] : i \in 1 .. Len(keys)}

\* Mutant: every configured key gets an entry, a nil placeholder when the
\* context has no value under it.
fieldsFromContextWithPlaceholders(keys, ctx) ==
    [k \in KeysOf(keys) |-> CtxValue(ctx, k)]

\* fieldsFromContext on a non-nil context.
fieldsFromContext(keys, ctx) ==
    [k \in {f \in KeysOf(keys) : CtxValue(ctx, f) # NilValue} |-> CtxValue(ctx, k)]

\* Mutant: on a key collision the value the entry already has is kept.
WithFieldsKeepingOld(data, fields) ==
    [k \in DOMAIN data \cup DOMAIN fields |->
        IF k \in DOMAIN data THEN data[k] ELSE fields[k]]

\* Entry.WithFields: the entry's data overwritten by the given fields.
WithFields(data, fields) ==
    [k \in DOMAIN data \cup DOMAIN fields |->
        IF k \in DOMAIN fields THEN fields[k] ELSE data[k]]

\* dto.CallerFields(): the call-site fields captured at construction.
CallerFields(dto) == dto.Caller

\* The field map the drain loops hand to Entry.Log.
MergedFields(keys, dto) ==
    WithFields(WithFields(WithFields(NoFields, dto.Fields),
                          fieldsFromContext(keys, dto.Ctx)),
               CallerFields(dto))

\* loggerdto.NewMsg / loggerdto.NewErr: id is the call (producer, call number).
NewMsg(id, ctx, level, msg, fields) ==
    [id |-> id, Ctx |-> ctx, Level |-> level, Msg |-> msg, Fields |-> fields,
     Caller |-> [func |-> "caller", line |-> id[2]]]

NewErr(id, ctx, level, err, fields) ==
    [id |-> id, Ctx |-> ctx, Level |-> level, Err |-> err, Fields |-> fields,
     Caller |-> [func |-> "caller", line |-> id[2]]]

\* The argument expressions of the Log call panic before logrus is entered:
\* ctx.Value on a nil ctx (only when a key is configured), Error() on a nil error.
PanicsBeforeLog(q, keys, dto) ==
    \/ dto.Ctx.isNil /\ Len(keys) > 0
    \/ q = "errCh" /\ dto.Err = NilErr

\* The entry Entry.Log receives.
LogEntry(q, keys, dto) ==
    [q      |-> q,
     id     |-> dto.id,
     level  |-> getLevel(dto.Level),
     msg    |-> IF q = "errCh" THEN dto.Err ELSE dto.Msg,
     fields |-> MergedFields(keys, dto)]

\* logrus Entry.Log panics after writing an entry of PanicLevel.
LogPanics(level) == level = "PanicLevel"

(* --------------------------- output resolver --------------------------- *)

\* Strings are sequences of characters; a path is the sequence of its
\* components, from the root.
Stdout == "stdout"

Stderr == "stderr"

DevNull == "/dev/null"

Var == <<"v", "a", "r">>

LogName == <<"l", "o", "g">>

MyLog == <<"m", "y", ".", "l", "o", "g">>

AppLog == <<"a", "p", "p", ".", "l", "o", "g">>

Dot == <<".">>

\* os.Getwd(): the working directory /w.
RootDir == << <<"w">> >>

\* strings.Contains(s, substr): substr occurs within s.
Contains(s, substr) ==
    \E i \in 1 .. Len(s) + 1 :
       /\ i + Len(substr) - 1 <= Len(s)
       /\ SubSeq(s, i, i + Len(substr) - 1) = substr

\* The text of an absolute path: "/" and its components joined by "/".
RECURSIVE Text(_)
Text(path) ==
    IF Len(path) <= 1
    THEN <<"/">> \o (IF path = <<>> THEN <<>> ELSE path[1])
    ELSE Text(SubSeq(path, 1, Len(path) - 1)) \o <<"/">> \o path[Len(path)]

\* filepath.Join(path, elem): elem appended and the result cleaned (empty and
\* "." components dropped).
Join(path, elem) ==
    path \o SelectSeq(elem, LAMBDA c : c # <<>> /\ c # Dot)

\* filepath.Dir(path)
Dir(path) == IF path = <<>> THEN <<>> ELSE SubSeq(path, 1, Len(path) - 1)

\* A path and its ancestors.
Prefixes(path) == {SubSeq(path, 1, n) : n \in 0 .. Len(path)}

\* os.ReadDir(dir): its error.
ReadDirErr(fs, dir) ==
    IF dir \in fs.dirs THEN "none"
    ELSE IF Prefixes(dir) \cap fs.files # {} THEN "notdir"
    ELSE "notexist"

\* os.MkdirAll(dir): the directory and its missing ancestors are created; it
\* fails when a file is in the way.
MkdirAll(fs, dir) ==
    IF Prefixes(dir) \cap fs.files # {}
    THEN [err |-> TRUE, fs |-> fs]
    ELSE [err |-> FALSE, fs |-> [fs EXCEPT !.dirs = @ \cup Prefixes(dir)]]

\* os.OpenFile(path, O_CREATE|O_APPEND|O_RDWR): the file is created when
\* missing; it fails when the path is a directory.
OpenFile(fs, path) ==
    IF path \in fs.dirs
    THEN [err |-> TRUE, fs |-> fs]
    ELSE [err |-> FALSE, fs |-> [fs EXCEPT !.files = @ \cup {path}]]

\* The path getOutput opens for a name that is none of the reserved ones.
ResolvedPath(logsDir) ==
    LET path == Join(RootDir, logsDir) IN
    IF ~Contains(Dot, Text(path)) THEN Join(path, <<AppLog>>) ELSE path

\* getOutput(output, logsDir) on the file system fs: the sink, or the error,
\* and the file system it leaves.
getOutput(output, logsDir, fs) ==
    IF output = Stdout THEN [kind |-> "stdout", path |-> <<>>, fs |-> fs]
    ELSE IF output = Stderr THEN [kind |-> "stderr", path |-> <<>>, fs |-> fs]
    ELSE IF output = DevNull \/ output = "" THEN [kind |-> "discard", path |-> <<>>, fs |-> fs]
    ELSE
      LET path == ResolvedPath(logsDir)
          rerr == ReadDirErr(fs, Dir(path))
          made == IF rerr = "notexist" THEN MkdirAll(fs, Dir(path))
                  ELSE [err |-> rerr # "none", fs |-> fs]
          open == OpenFile(made.fs, path)
      IN  IF made.err THEN [kind |-> "error", path |-> path, fs |-> made.fs]
          ELSE IF open.err THEN [kind |-> "error", path |-> path, fs |-> open.fs]
          ELSE [kind |-> "file", path |-> path, fs |-> open.fs]

\* The output names the resolver is asked for.
Outputs == {Stdout, Stderr, DevNull, "", "file"}

\* The logs directories configured: var/log, log, the empty string, ".",
\* var/log/my.log and var/log/app.log.
LogsDirs ==
    {<<Var, LogName>>, <<LogName>>, <<>>, <<Dot>>, <<Var, LogName, MyLog>>,
     <<Var, LogName, AppLog>>}

\* The file systems the resolver starts on: the working directory alone,
\* with var/log, with log/app.log, and with a file var in the way.
FileSystems ==
    {[dirs |-> Prefixes(RootDir), files |-> {}],
     [dirs |-> Prefixes(RootDir \o <<Var, LogName>>), files |-> {}],
     [dirs |-> Prefixes(RootDir \o <<LogName>>),
      files |-> {RootDir \o <<LogName, AppLog>>}],
     [dirs |-> Prefixes(RootDir), files |-> {RootDir \o <<Var>>}]}

\* NewOutput: getOutput is called with the configured output and logs
\* directory; the sink and its release action are returned, or the error.
NewOutput ==
    /\ resolver.pc = "start"
    /\ LET r == getOutput(resolver.output, resolver.logsDir, resolver.fs) IN
          resolver' = [resolver EXCEPT !.pc = IF r.kind = "error" THEN "failed" ELSE "open",
                                       !.kind = r.kind,
                                       !.path = r.path,
                                       !.fs = r.fs]

\* The release action returned by NewOutput: out.Close().
Release ==
    /\ resolver.pc = "open"
    /\ resolver' = [resolver EXCEPT !.pc = "released"]

(* ------------------------- producer operations ------------------------- *)

\* The message-form operations (they send on msgCh).
MsgOps == {"DebugMsg", "InfoMsg", "WarningMsg", "ErrorMsg", "FatalMsg", "PanicMsg", "LogMsg"}

\* The error-form operations (they send on errCh).
ErrOps == {"Debug", "Info", "Warning", "Error", "Fatal", "Panic", "Log"}

\* The channel an operation sends on.
QueueOf(op) == IF op \in MsgOps THEN "msgCh" ELSE "errCh"

\* The level an operation stamps: fixed by the operation, or the level argument
\* of the generic forms LogMsg and Log.
OpLevel(inv) ==
    CASE inv.op \in {"DebugMsg", "Debug"}     -> DebugLvl
      [] inv.op \in {"InfoMsg", "Info"}       -> InfoLvl
      [] inv.op \in {"WarningMsg", "Warning"} -> WarningLvl
      [] inv.op \in {"ErrorMsg", "Error"}     -> ErrorLvl
      [] inv.op \in {"FatalMsg", "Fatal"}     -> FatalLvl
      [] inv.op \in {"PanicMsg", "Panic"}     -> PanicLvl
      [] OTHER                                -> inv.level

\* The dto an operation constructs for the call numbered id.
DtoOf(id, inv) ==
    IF inv.op \in MsgOps
    THEN NewMsg(id, inv.ctx, OpLevel(inv), inv.msg, inv.fields)
    ELSE NewErr(id, inv.ctx, OpLevel(inv), inv.err, inv.fields)

\* A context scope carrying a request id.
ReqCtx == [isNil |-> FALSE, vals |-> [rid |-> "r1"]]

\* One invocation of a producer operation with its arguments.
Invocation(op, ctx, level, msg, err) ==
    [op |-> op, ctx |-> ctx, level |-> level, msg |-> msg, err |-> err,
     fields |-> [x |-> "a"]]

\* An operation without a result.
NoResult == <<>>

\* What an operation hands back to its caller when it returns: Debug .. Panic
\* return err; the message forms and Log are declared without a result.
Returns(inv) ==
    IF inv.op \in ErrOps \ {"Log"} THEN <<inv.err>> ELSE NoResult

\* The invocations producers draw from: a message of severity fatal (which
\* logrus writes like any severity but panic), a message of severity panic,
\* an error, an error with a nil context, and a generic-level call with a nil
\* error.
CallSet ==
    { Invocation("FatalMsg", ReqCtx, "", "m", ""),
      Invocation("PanicMsg", ReqCtx, "", "m", ""),
      Invocation("Error",    ReqCtx, "", "", "e"),
      Invocation("Warning",  NilCtx, "", "", "e"),
      Invocation("Log",      ReqCtx, "trace", "", NilErr) }

\* One invocation with the explicit fields given.
InvocationWith(op, ctx, level, msg, err, fields) ==
    [op |-> op, ctx |-> ctx, level |-> level, msg |-> msg, err |-> err,
     fields |-> fields]

\* A non-nil context without values (context.Background()).
BackgroundCtx == [isNil |-> FALSE, vals |-> <<>>]

\* A context scope carrying values under "x", "func" and "uid" and an
\* explicit nil under "rid".
ScopedCtx ==
    [isNil |-> FALSE,
     vals  |-> [x |-> "b", func |-> "b", uid |-> "b", rid |-> NilValue]]

\* The contexts the record calls pass.
Contexts == {NilCtx, BackgroundCtx, ReqCtx, ScopedCtx}

\* The explicit field maps the record calls pass: none, one field, and
\* fields under the names the context and the call site use as well.
FieldMaps == {NoFields, [x |-> "a"], [x |-> "a", func |-> "a", rid |-> "a"]}

\* The level names the generic operations are called with: one of the six,
\* the default one, and two that are none of the six.
LevelNames == {"warning", "debug", "trace", ""}

\* The configured lists of context keys of the record engines.
KeyLists == {<<>>, <<"rid">>, <<"rid", "x">>, <<"x", "func">>}

\* The invocations of the record engines: every operation, with every
\* context and field map, the generic ones with every level name.
RecordCalls ==
    {InvocationWith(op, ctx, "", "m", "e", fields) :
        op \in (MsgOps \cup ErrOps) \ {"LogMsg", "Log"},
        ctx \in Contexts, fields \in FieldMaps}
    \cup
    {InvocationWith(op, ctx, level, "m", "e", fields) :
        op \in {"LogMsg", "Log"}, ctx \in Contexts,
        level \in LevelNames, fields \in FieldMaps}

(* ------------------------------ channels ------------------------------- *)

\* Mutant: a send on a closed channel is accepted like any other.
SendNeverPanics(q) == FALSE

\* A send on a closed channel panics.
SendPanics(q) == closed[q]

\* Mutant: the buffer takes one element more than its capacity.
HasRoomOffByOne(q) == Len(buf[q]) <= capacity

\* Mutant: the channel is unbounded.
HasRoomAlways(q) == TRUE

\* Mutant: the two channels share one buffer of the configured capacity.
HasRoomInSharedBuffer(q) == Len(buf["msgCh"]) + Len(buf["errCh"]) < capacity

\* The buffer has a free slot.
HasRoom(q) == Len(buf[q]) < capacity

\* Mutant: the element is enqueued at the head.
EnqueueAtHead(b, e) == <<e>> \o b

\* Buffer after an element is enqueued at the tail.
Enqueue(b, e) == Append(b, e)

\* Mutant: a receive takes the newest element.
DequeueNewest(b) == [elem |-> b[Len(b)], rest |-> SubSeq(b, 1, Len(b) - 1)]

\* The element a receive takes from a non-empty buffer, and what is left.
Dequeue(b) == [elem |-> Head(b), rest |-> Tail(b)]

\* Mutant: closing a closed channel does nothing.
CloseNeverPanics(q) == FALSE

\* Closing a closed channel panics.
ClosePanics(q) == closed[q]

\* ch <- dto by producer p (runtime chansend).
Send(p, q, dto) ==
    /\ calls' = [calls EXCEPT ![p] = @ + 1]
    /\ req' = [req EXCEPT ![p] = <<dto>>]
    /\ IF SendPanics(q)
       THEN /\ ppc' = [ppc EXCEPT ![p] = "panicked"]
            /\ UNCHANGED <<buf, sendq, committed>>
       ELSE IF HasRoom(q)
       THEN /\ buf' = [buf EXCEPT ![q] = Enqueue(@, dto)]
            /\ committed' = [committed EXCEPT ![q] = Append(@, dto)]
            /\ ppc' = [ppc EXCEPT ![p] = "ready"]
            /\ UNCHANGED sendq
       ELSE /\ sendq' = [sendq EXCEPT ![q] = Append(@, dto)]
            /\ ppc' = [ppc EXCEPT ![p] = "parked"]
            /\ UNCHANGED <<buf, committed>>
    /\ UNCHANGED <<resolver, capacity, contextExtraFields, closed, wpc, wcur, wg,
                   quota, shutPc, written, sigLen>>

\* Producer calls made so far by producers 1 .. n.
RECURSIVE CallsUpTo(_)
CallsUpTo(n) == IF n = 0 THEN 0 ELSE calls[n] + CallsUpTo(n - 1)

TotalCalls == CallsUpTo(NumProducers)

\* A producer goroutine calls one of the public operations.  Producers are
\* numbered in the order of their first call (they are interchangeable).
Call(p, invs) ==
    /\ ppc[p] \in {"ready", "resumed"}
    /\ TotalCalls < quota
    /\ IF p = 1 THEN TRUE ELSE calls[p - 1] > 0
    /\ \E inv \in invs :
          /\ Send(p, QueueOf(inv.op), DtoOf(<<p, calls[p] + 1>>, inv))
          /\ lastCall' = [lastCall EXCEPT ![p] = <<inv>>]

\* A producer call drawn from CallSet.
ProducerCall(p) == Call(p, CallSet)

\* A producer call drawn from RecordCalls.
RecordCall(p) == Call(p, RecordCalls)

(* ---------------------------- drain loops ------------------------------ *)

\* Mutant: a receive frees a slot without handing it to the first parked sender.
RecvWithoutHandOff(q) ==
    IF buf[q] # <<>>
    THEN [elem |-> Head(buf[q]), buf |-> Tail(buf[q]), woken |-> <<>>]
    ELSE [elem |-> Head(sendq[q]), buf |-> buf[q], woken |-> <<Head(sendq[q])>>]

\* The channel state after the drain loop of q took the next element
\* (runtime chanrecv): the head of the buffer, whose slot goes to the first
\* parked sender; with no buffer (capacity 0) the first parked sender's element.
RecvResult(q) ==
    IF buf[q] # <<>>
    THEN LET d == Dequeue(buf[q]) IN
         IF sendq[q] # <<>>
         THEN [elem |-> d.elem, buf |-> Enqueue(d.rest, Head(sendq[q])),
               woken |-> <<Head(sendq[q])>>]
         ELSE [elem |-> d.elem, buf |-> d.rest, woken |-> <<>>]
    ELSE [elem |-> Head(sendq[q]), buf |-> buf[q], woken |-> <<Head(sendq[q])>>]

\* for x := range ch: the next element is received.
Receive(q) ==
    /\ wpc[q] = "recv"
    /\ buf[q] # <<>> \/ sendq[q] # <<>>
    /\ LET r == RecvResult(q) IN
         /\ wcur' = [wcur EXCEPT ![q] = <<r.elem>>]
         /\ buf' = [buf EXCEPT ![q] = r.buf]
         /\ IF r.woken # <<>>
            THEN /\ sendq' = [sendq EXCEPT ![q] = Tail(@)]
                 /\ ppc' = [ppc EXCEPT ![r.woken[1].id[1]] = "resumed"]
                 /\ committed' = [committed EXCEPT ![q] = Append(@, r.woken[1])]
            ELSE UNCHANGED <<sendq, ppc, committed>>
    /\ wpc' = [wpc EXCEPT ![q] = "handle"]
    /\ UNCHANGED <<resolver, capacity, contextExtraFields, lastCall, closed, wg, calls, quota, req,
                   shutPc, written, sigLen>>

\* for x := range ch: the channel is closed and empty; the loop ends and the
\* deferred wg.Done() runs.
LoopExit(q) ==
    /\ wpc[q] = "recv"
    /\ buf[q] = <<>> /\ sendq[q] = <<>>
    /\ closed[q]
    /\ wpc' = [wpc EXCEPT ![q] = "done"]
    /\ wg' = wg - 1
    /\ UNCHANGED <<resolver, capacity, contextExtraFields, lastCall, buf, sendq, closed, wcur, ppc,
                   calls, quota, req, shutPc, written, committed, sigLen>>

\* Mutant: one loop body at a time, in the order of the calls: a loop body
\* waits while the other loop holds a record its caller enqueued earlier.
AtLoopBodyInCallOrder(q) ==
    /\ wpc[q] = "handle"
    /\ \A r \in Queues \ {q} :
          wpc[r] = "handle" =>
             ~(/\ wcur[r][1].id[1] = wcur[q][1].id[1]
               /\ wcur[r][1].id[2] < wcur[q][1].id[2])

\* The drain goroutine of q is in its loop body, holding the record received.
\* Each loop runs in a goroutine of its own (go l.handleErrors, go
\* l.handleMessages): nothing but its own position decides whether it runs.
AtLoopBody(q) == wpc[q] = "handle"

\* The loop body: the fields are merged and the entry is handed to logrus.
\* A panic (before the Log call, or raised by Log at PanicLevel) unwinds the
\* goroutine through the deferred wg.Done().
Handle(q) ==
    /\ AtLoopBody(q)
    /\ LET dto == wcur[q][1] IN
       IF PanicsBeforeLog(q, contextExtraFields, dto)
       THEN /\ wpc' = [wpc EXCEPT ![q] = "panicked"]
            /\ wg' = wg - 1
            /\ UNCHANGED <<written, wcur>>
       ELSE /\ written' = Append(written, LogEntry(q, contextExtraFields, dto))
            /\ IF LogPanics(getLevel(dto.Level))
               THEN /\ wpc' = [wpc EXCEPT ![q] = "panicked"]
                    /\ wg' = wg - 1
                    /\ UNCHANGED wcur
               ELSE /\ wpc' = [wpc EXCEPT ![q] = "recv"]
                    /\ wcur' = [wcur EXCEPT ![q] = <<>>]
                    /\ UNCHANGED wg
    /\ UNCHANGED <<resolver, capacity, contextExtraFields, lastCall, buf, sendq, closed, ppc,
                   calls, quota, req, shutPc, committed, sigLen>>

(* --------------------------- cancel closure ---------------------------- *)

\* The producers parked on q.
Parked(q) == {sendq[q][i].id[1] : i \in 1 .. Len(sendq[q])}

\* close(ch) by shutter s, which then moves on to position next.
Close(s, q, next) ==
    IF ClosePanics(q)
    THEN /\ shutPc' = [shutPc EXCEPT ![s] = "panicked"]
         /\ UNCHANGED <<closed, sendq, ppc>>
    ELSE /\ shutPc' = [shutPc EXCEPT ![s] = next]
         /\ closed' = [closed EXCEPT ![q] = TRUE]
         /\ sendq' = [sendq EXCEPT ![q] = <<>>]
         /\ ppc' = [p \in Producers |-> IF p \in Parked(q) THEN "panicked" ELSE ppc[p]]

\* close(l.msgCh): the cancel closure is entered.
CloseMsg(s) ==
    /\ shutPc[s] = "idle"
    /\ Close(s, "msgCh", "closeErr")
    /\ sigLen' = IF closed["msgCh"] THEN sigLen
                 ELSE [q \in Queues |-> Len(committed[q])]
    /\ UNCHANGED <<resolver, capacity, contextExtraFields, lastCall, buf, wpc, wcur, wg, calls,
                   quota, req, written, committed>>

\* close(l.errCh)
CloseErr(s) ==
    /\ shutPc[s] = "closeErr"
    /\ Close(s, "errCh", "wait")
    /\ UNCHANGED <<resolver, capacity, contextExtraFields, lastCall, buf, wpc, wcur, wg, calls,
                   quota, req, written, committed, sigLen>>

\* wg.Wait() returns, and with it the cancel closure.
Wait(s) ==
    /\ shutPc[s] = "wait"
    /\ wg = 0
    /\ shutPc' = [shutPc EXCEPT ![s] = "returned"]
    /\ UNCHANGED <<resolver, capacity, contextExtraFields, lastCall, buf, sendq, closed, wpc, wcur,
                   wg, ppc, calls, quota, req, written, committed, sigLen>>

(* --------------------------- specifications ---------------------------- *)

\* The output resolver has not been called: the engine is given its output.
Unresolved == [pc |-> "none"]

\* NewLogrus: both channels made, both drain goroutines started, wg = 2.
\* shutters are the callers of the cancel closure, n the number of producer
\* calls to come and keyLists the configured lists of context keys.
Construct(shutters, n, keyLists) ==
    /\ capacity \in 0 .. MaxCap
    /\ contextExtraFields \in keyLists
    /\ quota = n
    /\ buf = [q \in Queues |-> <<>>]
    /\ sendq = [q \in Queues |-> <<>>]
    /\ closed = [q \in Queues |-> FALSE]
    /\ wpc = [q \in Queues |-> "recv"]
    /\ wcur = [q \in Queues |-> <<>>]
    /\ wg = Cardinality(Queues)
    /\ ppc = [p \in Producers |-> "ready"]
    /\ calls = [p \in Producers |-> 0]
    /\ req = [p \in Producers |-> <<>>]
    /\ lastCall = [p \in Producers |-> <<>>]
    /\ shutPc = [s \in Shutters |-> IF s \in shutters THEN "idle" ELSE "absent"]
    /\ written = <<>>
    /\ committed = [q \in Queues |-> <<>>]
    /\ sigLen = [q \in Queues |-> 0]

\* The engine configured with the one context key "rid".
NewLogrus(shutters, n) ==
    resolver = Unresolved /\ Construct(shutters, n, {<<"rid">>})

\* One engine whose cancel closure is called at most once.
Init == NewLogrus({"s1"}, MaxCalls)

\* One engine whose cancel closure is called by two callers, in any
\* interleaving with each other and with one producer call fewer.
InitTwice == NewLogrus(Shutters, MaxCalls - 1)

Next ==
    \/ \E p \in Producers : ProducerCall(p)
    \/ \E q \in Queues : Receive(q)
    \/ \E q \in Queues : LoopExit(q)
    \/ \E q \in Queues : Handle(q)
    \/ \E s \in Shutters : CloseMsg(s)
    \/ \E s \in Shutters : CloseErr(s)
    \/ \E s \in Shutters : Wait(s)

Spec == Init /\ [][Next]_vars

\* One engine, configured with any of the key lists, that is handed one
\* record, drawn from RecordCalls.
InitRecords == resolver = Unresolved /\ Construct({"s1"}, 1, KeyLists)

NextRecords ==
    \/ \E p \in Producers : RecordCall(p)
    \/ \E q \in Queues : Receive(q)
    \/ \E q \in Queues : LoopExit(q)
    \/ \E q \in Queues : Handle(q)
    \/ \E s \in Shutters : CloseMsg(s)
    \/ \E s \in Shutters : CloseErr(s)
    \/ \E s \in Shutters : Wait(s)

SpecRecords == InitRecords /\ [][NextRecords]_vars

\* The variables of the engine.
engineVars == <<capacity, contextExtraFields, buf, sendq, closed, wpc, wcur, wg,
                ppc, calls, quota, req, lastCall, shutPc, written, committed,
                sigLen>>

\* The output resolver about to be called, for every output name, logs
\* directory and file system; the engine is constructed and left alone.
InitOutput ==
    /\ resolver \in [pc : {"start"}, output : Outputs, logsDir : LogsDirs,
                      fs : FileSystems, kind : {"none"}, path : {<<>>}]
    /\ Construct({}, 0, {<<>>})

NextOutput ==
    \/ NewOutput /\ UNCHANGED engineVars
    \/ Release /\ UNCHANGED engineVars

SpecOutput == InitOutput /\ [][NextOutput]_vars

SpecTwice == InitTwice /\ [][Next]_vars

(* ------------------------- derived state views ------------------------- *)

\* The drain goroutine of q has stopped (loop ended, or unwound by a panic).
WorkerExited(q) == wpc[q] \in {"done", "panicked"}

\* Some goroutine has panicked: the process is being torn down.
Crashed ==
    \/ \E q \in Queues : wpc[q] = "panicked"
    \/ \E p \in Producers : ppc[p] = "panicked"
    \/ \E s \in Shutters : shutPc[s] = "panicked"

\* The entries of queue q handed to logrus, in order.
WrittenOf(q) == SelectSeq(written, LAMBDA e : e.q = q)

\* The call ids of a sequence of dtos or entries.
Ids(seq) == [i \in 1 .. Len(seq) |-> seq[i].id]

\* The set of call ids handed to logrus.
WrittenIds == {written[i].id : i \in 1 .. Len(written)}

(* ------------------------------- claims -------------------------------- *)

\* C1: no loss, no duplication.  Every record whose enqueue completed is
\* eventually handed to the writer, and none more than once.  Only the drain
\* goroutine of a queue hands its records over, so once that goroutine has
\* stopped every record committed to its queue must already have been written.
C1_NoLossNoDuplication ==
    /\ \A q \in Queues :
          WorkerExited(q) =>
             \A i \in 1 .. Len(committed[q]) : committed[q][i].id \in WrittenIds
    /\ \A i, j \in 1 .. Len(written) : written[i].id = written[j].id => i = j

\* C2: shutdown drains fully.  Whenever the cancel closure has returned, both
\* drain goroutines have exited, both queues are empty and every record whose
\* enqueue completed before the closure began has been handed to the writer.
C2_ShutdownDrainsFully ==
    \A s \in Shutters :
       shutPc[s] = "returned" =>
          \A q \in Queues :
             /\ WorkerExited(q)
             /\ buf[q] = <<>>
             /\ \A i \in 1 .. sigLen[q] : committed[q][i].id \in WrittenIds

\* C7: a drain loop terminates only when its queue is closed and drained, for
\* every record a producer operation can enqueue.
C7_LoopEndsOnlyClosedAndDrained ==
    \A q \in Queues : WorkerExited(q) => closed[q] /\ buf[q] = <<>>

\* No producer call overlapped the cancel closure: no call was made, pending
\* or completed after the closure began.
CallsBeforeShutdown ==
    /\ \A q \in Queues : Len(committed[q]) = sigLen[q]
    /\ \A p \in Producers : ppc[p] \in {"ready", "resumed"}

\* The writer returned from every call: no record of PanicLevel was enqueued.
WriterAlwaysReturns ==
    \A q \in Queues : \A i \in 1 .. Len(committed[q]) :
       ~LogPanics(getLevel(committed[q][i].Level))

\* C8: shutdown terminates with everything written.  When all N producer
\* calls returned before the single call of the cancel closure and the writer
\* always returns, then once the closure has returned the writer has observed
\* exactly the N records, those of each queue in call order.
C8_ShutdownTerminates ==
    (shutPc["s1"] = "returned" /\ CallsBeforeShutdown /\ WriterAlwaysReturns) =>
       /\ Len(written) = TotalCalls
       /\ \A q \in Queues : Ids(WrittenOf(q)) = Ids(committed[q])

\* C3: per-producer FIFO.  The records one producer enqueued into one queue
\* are handed to the writer in the order of its calls: in the written entries
\* of a queue the call numbers of one producer increase, and an entry is
\* written only after every earlier record of that producer in that queue.
C3_PerProducerFIFO ==
    \A q \in Queues :
       LET w == WrittenOf(q)
           c == committed[q]
       IN  /\ \A i, j \in 1 .. Len(w) :
                 (i < j /\ w[i].id[1] = w[j].id[1]) => w[i].id[2] < w[j].id[2]
           /\ \A j \in 1 .. Len(w) : \A k \in 1 .. Len(c) :
                 (c[k].id[1] = w[j].id[1] /\ c[k].id[2] < w[j].id[2]) =>
                    \E i \in 1 .. j - 1 : w[i].id = c[k].id

\* C3 witness: one producer has had two records of one queue written.
C3_Witness ==
    \E q \in Queues :
       \E i, j \in 1 .. Len(WrittenOf(q)) :
          i < j /\ WrittenOf(q)[i].id[1] = WrittenOf(q)[j].id[1]

\* The record the drain goroutine of q holds and has not handed over yet.
InFlight(q) ==
    IF wcur[q] # <<>> /\ wcur[q][1].id \notin WrittenIds THEN wcur[q] ELSE <<>>

\* C10: cross-producer order is enqueue-completion order.  For each queue the
\* records in completion order are exactly the written ones, then the one the
\* drain goroutine holds, then the buffered ones: neither the queue nor the
\* drain goroutine reorders two records.
C10_DeliveryInCompletionOrder ==
    \A q \in Queues :
       Ids(committed[q]) = Ids(WrittenOf(q)) \o Ids(InFlight(q)) \o Ids(buf[q])

\* C10 witness: records of two producers were written from one queue.
C10_Witness ==
    \E q \in Queues :
       \E i, j \in 1 .. Len(WrittenOf(q)) :
          i < j /\ WrittenOf(q)[i].id[1] # WrittenOf(q)[j].id[1]

\* The channel a dto travels on.
DtoQueue(dto) == IF "Msg" \in DOMAIN dto THEN "msgCh" ELSE "errCh"

\* The call ids of a sequence of dtos, as a set.
IdSet(seq) == {seq[i].id : i \in 1 .. Len(seq)}

\* A step keeps the channel's records: a buffered record stays buffered or is
\* the one the drain goroutine takes, and a producer parks only on a full queue.
KeepsRecords(q) ==
    /\ \A i \in 1 .. Len(buf[q]) :
          \/ buf[q][i].id \in IdSet(buf'[q])
          \/ wcur'[q] = <<buf[q][i]>>
    /\ Len(sendq'[q]) > Len(sendq[q]) => Len(buf[q]) = capacity

\* The parked record d of q stays parked in this step.
StaysParked(q, d) == d.id \in IdSet(sendq'[q])

\* The enqueue of the parked record d completes in this step, in which the
\* drain goroutine of q removes a record from the queue.
CompletesOnFreedSlot(q, d) ==
    /\ wpc[q] = "recv" /\ wpc'[q] = "handle"
    /\ wcur'[q] # wcur[q]
    /\ d.id \in IdSet(buf'[q]) \/ wcur'[q] = <<d>>

\* C4 as stated: bounded queue with backpressure.  A queue never holds more
\* than capacity records; no step drops or overwrites a record; an enqueue
\* into a full queue stays suspended until the drain goroutine has removed a
\* record from that queue.
C4_SuspendedUntilSlotFreed ==
    /\ [](\A q \in Queues : Len(buf[q]) <= capacity)
    /\ [][\A q \in Queues :
            /\ KeepsRecords(q)
            /\ \A i \in 1 .. Len(sendq[q]) :
                  \/ StaysParked(q, sendq[q][i])
                  \/ CompletesOnFreedSlot(q, sendq[q][i])
         ]_vars

\* C4 as amended: as above, except that a suspended enqueue also ends when
\* its queue is closed: the producer then panics and its record is not
\* enqueued.
C4_BoundedQueueBackpressure ==
    /\ [](\A q \in Queues : Len(buf[q]) <= capacity)
    /\ [][\A q \in Queues :
            /\ KeepsRecords(q)
            /\ \A i \in 1 .. Len(sendq[q]) :
                  \/ StaysParked(q, sendq[q][i])
                  \/ CompletesOnFreedSlot(q, sendq[q][i])
                  \/ /\ ~closed[q] /\ closed'[q]
                     /\ ppc'[sendq[q][i].id[1]] = "panicked"
                     /\ \A r \in Queues : sendq[q][i].id \notin IdSet(committed'[r])
         ]_vars

\* C4 witness: a producer is parked on a full queue of positive capacity.
C4_Witness ==
    \E q \in Queues : capacity > 0 /\ Len(buf[q]) = capacity /\ sendq[q] # <<>>

\* C5 as stated: once the cancel closure has closed its first queue, every
\* producer call, on either queue, panics and its record is not accepted.
SignalBegun == \E q \in Queues : closed[q]

C5_EnqueueAfterSignalIsFatal ==
    [][\A p \in Producers :
          (calls'[p] # calls[p] /\ SignalBegun) =>
             ppc'[p] = "panicked" /\ committed' = committed]_vars

\* C5 as amended: once the cancel closure has closed a queue, every producer
\* call on that queue panics, and the record of a panicked call is neither
\* accepted into a queue nor handed to the writer.
C5_EnqueueOnClosedQueueIsFatal ==
    /\ [](\A p \in Producers :
             ppc[p] = "panicked" =>
                /\ closed[DtoQueue(req[p][1])]
                /\ req[p][1].id \notin WrittenIds
                /\ \A q \in Queues :
                      req[p][1].id \notin (IdSet(committed[q]) \cup IdSet(buf[q])))
    /\ [][\A p \in Producers :
             (calls'[p] # calls[p] /\ closed[DtoQueue(req'[p][1])]) =>
                ppc'[p] = "panicked" /\ committed' = committed /\ buf' = buf]_vars

\* C5 witness: a producer panicked sending on a closed queue.
C5_Witness ==
    \E p \in Producers : ppc[p] = "panicked" /\ closed[DtoQueue(req[p][1])]

\* C6: double shutdown is fatal.  The two invocations of the cancel closure
\* never both return; once both have run their first close, one of them has
\* panicked, and it panicked closing a queue that was closed already.
C6_DoubleShutdownIsFatal ==
    /\ ~(\A s \in Shutters : shutPc[s] = "returned")
    /\ (\A s \in Shutters : shutPc[s] # "idle") =>
          \E s \in Shutters : shutPc[s] = "panicked"
    /\ \A s \in Shutters : shutPc[s] = "panicked" => closed["msgCh"]

\* C6 witness: one invocation returned and the other one panicked.
C6_Witness ==
    \E s, t \in Shutters : shutPc[s] = "returned" /\ shutPc[t] = "panicked"

\* C9: enqueue suspends only on a full queue and then resumes.  A call on an
\* open queue with a free slot completes within the call; a call parks only
\* on an open full queue; whenever the drain goroutine frees a slot of a queue
\* with parked producers, the longest-parked one completes its enqueue in that
\* very step; and a parked producer leaves the parked state only that way
\* unless its queue is closed.
C9_SuspendOnlyWhenFullThenResume ==
    [][/\ \A p \in Producers :
             calls'[p] # calls[p] =>
                LET d == req'[p][1]
                    q == DtoQueue(d)
                IN  /\ (~closed[q] /\ Len(buf[q]) < capacity) =>
                          /\ ppc'[p] = "ready"
                          /\ committed'[q] = Append(committed[q], d)
                    /\ ppc'[p] = "parked" =>
                          ~closed[q] /\ Len(buf[q]) = capacity
       /\ \A q \in Queues :
             (sendq[q] # <<>> /\ wpc[q] = "recv" /\ wpc'[q] = "handle") =>
                LET d == Head(sendq[q]) IN
                /\ ppc'[d.id[1]] = "resumed"
                /\ committed'[q] = Append(committed[q], d)
                /\ sendq'[q] = Tail(sendq[q])
       /\ \A p \in Producers :
             (ppc[p] = "parked" /\ ppc'[p] # "parked") =>
                \/ ppc'[p] = "resumed" /\ req[p][1].id \in IdSet(committed'[DtoQueue(req[p][1])])
                \/ ppc'[p] = "panicked" /\ closed'[DtoQueue(req[p][1])]
      ]_vars

\* C9 witness: a producer that was parked on a full queue of positive
\* capacity has completed its enqueue.
C9_Witness ==
    \E p \in Producers : capacity > 0 /\ ppc[p] = "resumed"

\* The drain goroutine of q holds a record that its loop body hands to logrus.
HoldsWritable(q) ==
    wpc[q] = "handle" /\ ~PanicsBeforeLog(q, contextExtraFields, wcur[q][1])

\* The loop body of q can run now and hands the record it holds to logrus.
CanWriteNext(q) ==
    ENABLED (/\ Handle(q)
             /\ Len(written') = Len(written) + 1
             /\ written'[Len(written')].id = wcur[q][1].id)

\* C11: no ordering between the two pipelines.  Whenever the two drain
\* goroutines hold a message record and an error record, enqueued one after
\* the other by one caller, either of the two can be the next one handed to
\* the writer; and a loop body holding a record is never kept waiting by the
\* other pipeline.  So both relative write orders are reachable.
C11_NoOrderBetweenPipelines ==
    /\ \A q \in Queues : HoldsWritable(q) => CanWriteNext(q)
    /\ (/\ HoldsWritable("msgCh")
        /\ HoldsWritable("errCh")
        /\ wcur["msgCh"][1].id[1] = wcur["errCh"][1].id[1]) =>
           CanWriteNext("msgCh") /\ CanWriteNext("errCh")

\* C11 witness: one caller enqueued a message record and then an error record,
\* and the error has been handed to the writer while the message has not.
C11_Witness ==
    \E i \in 1 .. Len(committed["msgCh"]) : \E j \in 1 .. Len(committed["errCh"]) :
       LET m == committed["msgCh"][i]
           e == committed["errCh"][j]
       IN  /\ m.id[1] = e.id[1] /\ m.id[2] < e.id[2]
           /\ e.id \in WrittenIds
           /\ m.id \notin WrittenIds
           /\ HoldsWritable("msgCh") /\ wcur["msgCh"][1].id = m.id

\* The latest call of producer p has returned to its caller.
Returned(p) == calls[p] > 0 /\ ppc[p] \in {"ready", "resumed"}

\* C12: error pass-through.  Every error-form operation that has returned,
\* the generic one included, handed back to its caller the error value it was
\* given, whether the send completed at once or after being parked.
C12_ErrorPassThrough ==
    \A p \in Producers :
       (Returned(p) /\ lastCall[p][1].op \in ErrOps) =>
          Returns(lastCall[p][1]) = <<lastCall[p][1].err>>

\* The record (dto) an entry handed to logrus was made from.
RecordOf(e) ==
    CHOOSE d \in {committed[e.q][i] : i \in 1 .. Len(committed[e.q])} : d.id = e.id

\* The entries handed to logrus, as a set.
Entries == {written[i] : i \in 1 .. Len(written)}

\* The configured keys under which a context holds a non-absent value.
Extracted(ctx) ==
    {k \in KeysOf(contextExtraFields) :
        k \in DOMAIN ctx.vals /\ ctx.vals[k] # NilValue}

\* C13: field-merge precedence.  The field map of every entry handed to the
\* writer has exactly the keys of the record's explicit fields, of its
\* context-extracted fields and of its call-site fields, and under each key
\* the call-site value if there is one, else the context value if there is
\* one, else the explicit value.
C13_FieldMergePrecedence ==
    \A e \in Entries :
       LET d == RecordOf(e)
           fromCtx == fieldsFromContext(contextExtraFields, d.Ctx)
       IN  /\ DOMAIN e.fields =
                 DOMAIN d.Fields \cup DOMAIN fromCtx \cup DOMAIN d.Caller
           /\ \A k \in DOMAIN e.fields :
                 e.fields[k] =
                    IF k \in DOMAIN d.Caller THEN d.Caller[k]
                    ELSE IF k \in DOMAIN fromCtx THEN fromCtx[k]
                    ELSE d.Fields[k]

\* C13 witness: an entry was written whose record has one key in all three
\* sources and another key in the explicit and the context fields only, each
\* with different values.
C13_Witness ==
    \E e \in Entries :
       LET d == RecordOf(e)
           fromCtx == fieldsFromContext(contextExtraFields, d.Ctx)
       IN  /\ \E k \in DOMAIN d.Caller \cap DOMAIN fromCtx \cap DOMAIN d.Fields :
                 /\ d.Caller[k] # fromCtx[k] /\ fromCtx[k] # d.Fields[k]
                 /\ e.fields[k] = d.Caller[k]
           /\ \E k \in (DOMAIN fromCtx \cap DOMAIN d.Fields) \ DOMAIN d.Caller :
                 fromCtx[k] # d.Fields[k] /\ e.fields[k] = fromCtx[k]

\* C14: context extraction.  For every record whose context is read, the
\* context-extracted field set has a key exactly when the key is configured
\* and the context holds a non-absent value under it, and maps the key to that
\* value; in the entry handed to the writer a key that neither the explicit
\* nor the call-site fields have is present exactly in that case.
C14_ContextExtraction ==
    /\ \A q \in Queues : \A i \in 1 .. Len(committed[q]) :
          LET d == committed[q][i]
              got == fieldsFromContext(contextExtraFields, d.Ctx)
          IN  ~(d.Ctx.isNil /\ Len(contextExtraFields) > 0) =>
                 /\ DOMAIN got = Extracted(d.Ctx)
                 /\ \A k \in DOMAIN got : got[k] = d.Ctx.vals[k]
    /\ \A e \in Entries :
          LET d == RecordOf(e) IN
          \A k \in {"rid", "x", "uid", "func", "line"} \ (DOMAIN d.Fields \cup DOMAIN d.Caller) :
             /\ k \in DOMAIN e.fields <=> k \in Extracted(d.Ctx)
             /\ k \in DOMAIN e.fields => e.fields[k] = d.Ctx.vals[k]

\* C14 witness: an entry was written for a record without explicit fields
\* whose context holds an extracted key, lacks a value under a configured key
\* and holds a value under a key that is not configured.
C14_Witness ==
    \E e \in Entries :
       LET d == RecordOf(e) IN
       /\ d.Fields = NoFields
       /\ \E k \in Extracted(d.Ctx) : k \in DOMAIN e.fields /\ k \notin DOMAIN d.Caller
       /\ \E k \in KeysOf(contextExtraFields) : k \notin Extracted(d.Ctx)
       /\ \E k \in DOMAIN d.Ctx.vals :
             /\ d.Ctx.vals[k] # NilValue
             /\ k \notin KeysOf(contextExtraFields)
             /\ k \notin DOMAIN e.fields

\* The logrus level of each of the six level names.
LevelOfName ==
    [debug |-> "DebugLevel", info |-> "InfoLevel", warning |-> "WarnLevel",
     error |-> "ErrorLevel", fatal |-> "FatalLevel", panic |-> "PanicLevel"]

\* The severity an invocation asks for: that of the operation, or for the
\* generic operations that of the level name, debug when it is none of the six.
SeverityOf(inv) ==
    CASE inv.op \in {"DebugMsg", "Debug"}     -> LevelOfName["debug"]
      [] inv.op \in {"InfoMsg", "Info"}       -> LevelOfName["info"]
      [] inv.op \in {"WarningMsg", "Warning"} -> LevelOfName["warning"]
      [] inv.op \in {"ErrorMsg", "Error"}     -> LevelOfName["error"]
      [] inv.op \in {"FatalMsg", "Fatal"}     -> LevelOfName["fatal"]
      [] inv.op \in {"PanicMsg", "Panic"}     -> LevelOfName["panic"]
      [] OTHER -> IF inv.level \in DOMAIN LevelOfName
                  THEN LevelOfName[inv.level] ELSE LevelOfName["debug"]

\* C16: severity selection.  Every entry handed to the writer has the
\* severity of the operation that created its record: the fixed one of a
\* severity-specific operation, the named one of a generic operation, and
\* debug when a generic operation names a level that is none of the six.
C16_SeveritySelection ==
    \A e \in Entries :
       e.id[2] = calls[e.id[1]] =>
          e.level = SeverityOf(lastCall[e.id[1]][1])

\* C16 witness: an entry of a generic operation called with a level name that
\* is none of the six has been handed to the writer.
C16_Witness ==
    \E e \in Entries :
       /\ e.id[2] = calls[e.id[1]]
       /\ lastCall[e.id[1]][1].op \in {"LogMsg", "Log"}
       /\ lastCall[e.id[1]][1].level \notin DOMAIN LevelOfName
       /\ e.level = "DebugLevel"

\* The path of the claim: the logs directory under the working directory,
\* with the default file name appended only when its last component is not a
\* file name (has no dot).
HasFileComponent(path) == path # <<>> /\ Contains(path[Len(path)], Dot)

ClaimedPath(logsDir) ==
    LET path == Join(RootDir, logsDir) IN
    IF HasFileComponent(path) THEN path ELSE Join(path, <<AppLog>>)

\* C15: output resolution.  Once the resolver has returned: stdout gave the
\* standard output stream, stderr the standard error stream, /dev/null and
\* the empty string a discard sink; any other name gave a file under the logs
\* directory, its directory and ancestors existing, the default file name
\* appended only if the logs directory names no file.
C15_OutputResolution ==
    resolver.pc \in {"open", "failed", "released"} =>
       /\ resolver.output = Stdout => resolver.kind = "stdout"
       /\ resolver.output = Stderr => resolver.kind = "stderr"
       /\ resolver.output \in {DevNull, ""} => resolver.kind = "discard"
       /\ resolver.output \notin {Stdout, Stderr, DevNull, ""} =>
             /\ resolver.path = ClaimedPath(resolver.logsDir)
             /\ resolver.kind = "file" =>
                   /\ resolver.path \in resolver.fs.files
                   /\ Prefixes(Dir(resolver.path)) \subseteq resolver.fs.dirs

\* Queue q is full and a producer is suspended on it.
Congested(q) == Len(buf[q]) = capacity /\ sendq[q] # <<>>

\* The state of the pipeline of q: its queue and its drain goroutine.
Pipeline(q) == <<buf[q], sendq[q], closed[q], wpc[q], wcur[q], committed[q]>>

\* The pipeline of q after the step.
PipelineAfter(q) == <<buf'[q], sendq'[q], closed'[q], wpc'[q], wcur'[q], committed'[q]>>

\* C17: independent backpressure.  Whatever the state of the other pipeline,
\* full with suspended producers included: a call on an open queue with a free
\* slot completes within the call; a drain goroutine with a record to receive
\* or to write can take its step; and a producer call or a drain step on one
\* queue leaves the other pipeline as it was.
C17_IndependentBackpressure ==
    /\ [](\A q \in Queues :
             /\ (wpc[q] = "recv" /\ (buf[q] # <<>> \/ sendq[q] # <<>>)) =>
                   ENABLED Receive(q)
             /\ wpc[q] = "handle" => ENABLED Handle(q))
    /\ [][\A q \in Queues : \A r \in Queues \ {q} :
            /\ \A p \in Producers :
                  (calls'[p] # calls[p] /\ DtoQueue(req'[p][1]) = q) =>
                     /\ PipelineAfter(r) = Pipeline(r)
                     /\ (~closed[q] /\ Len(buf[q]) < capacity) =>
                           /\ ppc'[p] = "ready"
                           /\ committed'[q] = Append(committed[q], req'[p][1])
            /\ wpc'[q] # wpc[q] =>
                  /\ buf'[r] = buf[r] /\ sendq'[r] = sendq[r]
                  /\ wpc'[r] = wpc[r] /\ wcur'[r] = wcur[r]
                  /\ committed'[r] = committed[r]
         ]_vars

\* C17 witness: the message queue, of positive capacity, is full with a
\* producer suspended on it and its drain goroutine has received nothing yet,
\* while a record another producer enqueued into the error queue has been
\* handed to the writer.
C17_Witness ==
    /\ capacity > 0
    /\ Congested("msgCh")
    /\ committed["msgCh"] = buf["msgCh"]
    /\ \E e \in Entries : e.q = "errCh" /\ e.id[1] \notin Parked("msgCh")

\* C18: producer suspended at shutdown.  Once a queue is closed no producer
\* is suspended on it; a producer that failed on it has a record that was
\* neither accepted nor handed to the writer; and the records that were in
\* the queue are all delivered: when the drain goroutine has stopped, every
\* record the queue had accepted has been handed to the writer.
C18_SuspendedProducerAtShutdown ==
    \A q \in Queues :
       closed[q] =>
          /\ sendq[q] = <<>>
          /\ \A p \in Producers :
                (ppc[p] = "panicked" /\ DtoQueue(req[p][1]) = q) =>
                   /\ req[p][1].id \notin IdSet(committed[q])
                   /\ req[p][1].id \notin WrittenIds
          /\ (/\ WorkerExited(q)
              /\ \E p \in Producers :
                    ppc[p] = "panicked" /\ DtoQueue(req[p][1]) = q) =>
                IdSet(committed[q]) \subseteq WrittenIds

\* The records of q whose enqueue has completed and that have not been handed
\* to the writer.
Pending(q) == IdSet(committed[q]) \ WrittenIds

\* C19: bounded in-flight records.  For each queue at most capacity + 1
\* records are enqueued and not yet handed to the writer: those buffered, at
\* most capacity, and the one its drain goroutine holds; the drain goroutine
\* never holds more than one record.
C19_BoundedInFlight ==
    \A q \in Queues :
       /\ Cardinality(Pending(q)) <= capacity + 1
       /\ Len(wcur[q]) <= 1
       /\ Pending(q) = IdSet(buf[q]) \cup IdSet(InFlight(q))

\* C19 witness: a queue of positive capacity has capacity + 1 records in
\* flight: its buffer is full and its drain goroutine holds one more.
C19_Witness ==
    \E q \in Queues :
       /\ capacity > 0
       /\ Cardinality(Pending(q)) = capacity + 1
       /\ Len(buf[q]) = capacity /\ InFlight(q) # <<>>

====
